---- MODULE Spec2Model ----
(***************************************************************************)
(* Model of the FAQ bot of day3_projects/faq_bot.py: the index build at    *)
(* import time, the ranking of the corpus by cosine similarity and the     *)
(* /faq request handler with its two outbound provider calls.              *)
(*                                                                         *)
(* Python floats are IEEE-754 binary64.  The model carries them as         *)
(* records [sign, man, exp] with value sign * man * 2^exp, man a 53-bit    *)
(* natural held in radix-2^14 limbs (TLC integers are 32 bits wide), and   *)
(* rounds every operation to nearest, ties to even, as the hardware does.  *)
(***************************************************************************)
EXTENDS Integers, Sequences, FiniteSets, TLC

(***************************************************************************)
(* Multi-precision naturals: little-endian limb sequences, no high zeros.  *)
(***************************************************************************)
Limb == 128 * 128

RECURSIVE Pow2(_)
Pow2(k) == IF k = 0 THEN 1 ELSE 2 * Pow2(k - 1)

LimbAt(x, i) == IF i >= 1 /\ i <= Len(x) THEN x[i] ELSE 0

RECURSIVE Trim(_)
Trim(x) == IF x # <<>> /\ x[Len(x)] = 0 THEN Trim(SubSeq(x, 1, Len(x) - 1)) ELSE x

MaxOf(m, n) == IF m >= n THEN m ELSE n

\* The limbs of a carry c >= 0.
RECURSIVE CarryOut(_)
CarryOut(c) == IF c = 0 THEN <<>> ELSE <<c % Limb>> \o CarryOut(c \div Limb)

BFromInt(n) == CarryOut(n)

\* Limbs i..n of x + s * y (s is 1 or -1) with carry c in.
RECURSIVE AddLimbs(_, _, _, _, _, _)
AddLimbs(x, y, s, i, n, c) ==
    IF i > n THEN CarryOut(c)
    ELSE LET t == LimbAt(x, i) + s * LimbAt(y, i) + c
         IN  <<t % Limb>> \o AddLimbs(x, y, s, i + 1, n, t \div Limb)

BAdd(x, y) == Trim(AddLimbs(x, y, 1, 1, MaxOf(Len(x), Len(y)), 0))

\* x - y for x >= y
BSub(x, y) == Trim(AddLimbs(x, y, -1, 1, MaxOf(Len(x), Len(y)), 0))

RECURSIVE BCmpAt(_, _, _)
BCmpAt(x, y, i) ==
    IF i = 0 THEN 0
    ELSE IF x[i] > y[i] THEN 1
    ELSE IF x[i] < y[i] THEN -1
    ELSE BCmpAt(x, y, i - 1)

\* -1, 0, 1 as x <, =, > y
BCmp(x, y) ==
    IF Len(x) > Len(y) THEN 1
    ELSE IF Len(x) < Len(y) THEN -1
    ELSE BCmpAt(x, y, Len(x))

RECURSIVE ColSum(_, _, _, _)
ColSum(x, y, k, i) ==
    IF i > Len(x) THEN 0
    ELSE LimbAt(x, i) * LimbAt(y, k + 1 - i) + ColSum(x, y, k, i + 1)

\* Limbs k..n of x * y with carry c in.
RECURSIVE MulLimbs(_, _, _, _, _)
MulLimbs(x, y, k, n, c) ==
    IF k > n THEN CarryOut(c)
    ELSE LET t == ColSum(x, y, k, 1) + c
         IN  <<t % Limb>> \o MulLimbs(x, y, k + 1, n, t \div Limb)

BMul(x, y) ==
    IF x = <<>> \/ y = <<>> THEN <<>>
    ELSE Trim(MulLimbs(x, y, 1, Len(x) + Len(y) - 1, 0))

\* Limbs i..n of floor(x / 2^(14 * w + s)), for s < 14 and p = 2^s.
RECURSIVE ShrLimbs(_, _, _, _, _)
ShrLimbs(x, w, p, i, n) ==
    IF i > n THEN <<>>
    ELSE <<(LimbAt(x, i + w) \div p) + (LimbAt(x, i + w + 1) % p) * (Limb \div p)>>
         \o ShrLimbs(x, w, p, i + 1, n)

\* floor(x / 2^k)
BShr(x, k) == Trim(ShrLimbs(x, k \div 14, Pow2(k % 14), 1, Len(x) - (k \div 14)))

\* x mod 2^k
BLow(x, k) ==
    IF Len(x) <= k \div 14 THEN x
    ELSE Trim(SubSeq(x, 1, k \div 14) \o <<x[(k \div 14) + 1] % Pow2(k % 14)>>)

RECURSIVE Zeros(_)
Zeros(n) == IF n = 0 THEN <<>> ELSE <<0>> \o Zeros(n - 1)

\* Limbs i..n of x * p with carry c in, for p < 2^14.
RECURSIVE ScaleLimbs(_, _, _, _, _)
ScaleLimbs(x, p, i, n, c) ==
    IF i > n THEN CarryOut(c)
    ELSE LET t == x[i] * p + c
         IN  <<t % Limb>> \o ScaleLimbs(x, p, i + 1, n, t \div Limb)

\* x * 2^k
BShl(x, k) ==
    IF x = <<>> THEN <<>>
    ELSE Zeros(k \div 14) \o ScaleLimbs(x, Pow2(k % 14), 1, Len(x), 0)

RECURSIVE SmallBitLen(_)
SmallBitLen(n) == IF n = 0 THEN 0 ELSE 1 + SmallBitLen(n \div 2)

BitLen(x) == IF x = <<>> THEN 0 ELSE (Len(x) - 1) * 14 + SmallBitLen(x[Len(x)])

BOdd(x) == x # <<>> /\ x[1] % 2 = 1

(***************************************************************************)
(* binary64 arithmetic.                                                    *)
(***************************************************************************)
MantBits == 53

FZero == [sign |-> 0, man |-> <<>>, exp |-> 0]

\* The double nearest to sign * (a + f) * 2^e, where a is a positive natural
\* and f is 0, or some fraction strictly between 0 and 1 when sticky.
FRound(sign, a, e, sticky) ==
    LET L == BitLen(a)
    IN  IF L <= MantBits
        THEN [sign |-> sign, man |-> BShl(a, MantBits - L), exp |-> e - (MantBits - L)]
        ELSE LET k    == L - MantBits
                 q    == BShr(a, k)
                 c    == BCmp(BLow(a, k), BShl(<<1>>, k - 1))
                 up   == c > 0 \/ (c = 0 /\ (sticky \/ BOdd(q)))
                 m    == IF up THEN BAdd(q, <<1>>) ELSE q
             IN  IF BitLen(m) > MantBits
                 THEN [sign |-> sign, man |-> BShr(m, 1), exp |-> e + k + 1]
                 ELSE [sign |-> sign, man |-> m, exp |-> e + k]

\* float(n) for an integer n
FromInt(n) ==
    IF n = 0 THEN FZero
    ELSE FRound(IF n < 0 THEN -1 ELSE 1, BFromInt(IF n < 0 THEN -n ELSE n), 0, FALSE)

\* x * y
FMul(x, y) ==
    IF x.sign = 0 \/ y.sign = 0 THEN FZero
    ELSE FRound(x.sign * y.sign, BMul(x.man, y.man), x.exp + y.exp, FALSE)

\* Long division, one quotient bit a step.  st = <<quotient so far,
\* remainder, bits done>> with remainder < d.
DivStep(st, d) ==
    IF BCmp(BShl(st[2], 1), d) >= 0
    THEN <<BAdd(BShl(st[1], 1), <<1>>), BSub(BShl(st[2], 1), d), st[3] + 1>>
    ELSE <<BShl(st[1], 1), BShl(st[2], 1), st[3] + 1>>

\* DivStep repeated until n bits are done; the run is split in halves so
\* that the evaluation stack grows with log n.
RECURSIVE DivBits(_, _, _)
DivBits(st, d, n) ==
    IF st[3] >= n THEN st
    ELSE IF st[3] + 1 = n THEN DivStep(st, d)
    ELSE DivBits(DivBits(st, d, (st[3] + n) \div 2), d, n)

\* x / y for y # 0
FDiv(x, y) ==
    IF x.sign = 0 THEN FZero
    ELSE LET qr == IF BCmp(x.man, y.man) >= 0
                   THEN DivBits(<< <<1>>, BSub(x.man, y.man), 0 >>, y.man, MantBits + 2)
                   ELSE DivBits(<< <<>>, x.man, 0 >>, y.man, MantBits + 2)
         IN  FRound(x.sign * y.sign, qr[1], x.exp - y.exp - (MantBits + 2), qr[2] # <<>>)

\* Square root, one result bit a step, two bits of the operand m at a time
\* from the top pair (number np - 1) down, then zeros.  st = <<root so far,
\* remainder, steps done>>.
SqrtStep(st, m, np) ==
    LET j     == np - 1 - st[3]
        rem   == BAdd(BShl(st[2], 2), IF j >= 0 THEN BLow(BShr(m, 2 * j), 2) ELSE <<>>)
        trial == BAdd(BShl(st[1], 2), <<1>>)
    IN  IF BCmp(rem, trial) >= 0
        THEN <<BAdd(BShl(st[1], 1), <<1>>), BSub(rem, trial), st[3] + 1>>
        ELSE <<BShl(st[1], 1), rem, st[3] + 1>>

RECURSIVE SqrtBits(_, _, _, _)
SqrtBits(st, m, np, n) ==
    IF st[3] >= n THEN st
    ELSE IF st[3] + 1 = n THEN SqrtStep(st, m, np)
    ELSE SqrtBits(SqrtBits(st, m, np, (st[3] + n) \div 2), m, np, n)

\* math.sqrt(x) for x >= 0: the root of man * 2^exp with exp made even,
\* carried to MantBits + 2 bits.
FSqrt(x) ==
    IF x.sign = 0 THEN FZero
    ELSE LET odd == x.exp % 2 = 1
             m   == IF odd THEN BShl(x.man, 1) ELSE x.man
             e   == IF odd THEN x.exp - 1 ELSE x.exp
             np  == (MantBits + 1) \div 2
             rr  == SqrtBits(<< <<>>, <<>>, 0 >>, m, np, MantBits + 2)
         IN  FRound(1, rr[1], (e \div 2) - (MantBits + 2 - np), rr[2] # <<>>)

\* x < y
FLess(x, y) ==
    IF x.sign # y.sign THEN x.sign < y.sign
    ELSE IF x.sign = 0 THEN FALSE
    ELSE LET c == IF x.exp # y.exp
                  THEN (IF x.exp > y.exp THEN 1 ELSE -1)
                  ELSE BCmp(x.man, y.man)
         IN  IF x.sign = 1 THEN c < 0 ELSE c > 0


(***************************************************************************)
(* cosine_similarity.  Embedding components are integer-valued doubles of  *)
(* small magnitude, written as TLA+ integers: every product a * b and      *)
(* every partial sum of the three sums is then an integer below 2^53 and   *)
(* exact in binary64, so the sums are taken in Int and converted; sqrt,    *)
(* the product of the norms and the quotient round as binary64 does.       *)
(***************************************************************************)
RECURSIVE SumProd(_, _)
SumProd(vec_a, vec_b) ==
    IF vec_a = <<>> \/ vec_b = <<>> THEN 0
    ELSE Head(vec_a) * Head(vec_b) + SumProd(Tail(vec_a), Tail(vec_b))

\* Faulty variants of cosine_similarity, which the properties must tell from
\* it: the length test left out (zip stops at the shorter operand) ...
CosineNoLengthTest(vec_a, vec_b) ==
    IF vec_a = <<>> \/ vec_b = <<>>
    THEN FZero
    ELSE LET dot_product == FromInt(SumProd(vec_a, vec_b))
             norm_a      == FSqrt(FromInt(SumProd(vec_a, vec_a)))
             norm_b      == FSqrt(FromInt(SumProd(vec_b, vec_b)))
         IN  IF norm_a = FZero \/ norm_b = FZero
             THEN FZero
             ELSE FDiv(dot_product, FMul(norm_a, norm_b))

\* ... norm_a taken twice in the denominator ...
CosineNormATwice(vec_a, vec_b) ==
    IF vec_a = <<>> \/ vec_b = <<>> \/ Len(vec_a) # Len(vec_b)
    THEN FZero
    ELSE LET dot_product == FromInt(SumProd(vec_a, vec_b))
             norm_a      == FSqrt(FromInt(SumProd(vec_a, vec_a)))
             norm_b      == FSqrt(FromInt(SumProd(vec_b, vec_b)))
         IN  IF norm_a = FZero \/ norm_b = FZero
             THEN FZero
             ELSE FDiv(dot_product, FMul(norm_a, norm_a))

\* ... and norm_b left out of the denominator.
CosineNoNormB(vec_a, vec_b) ==
    IF vec_a = <<>> \/ vec_b = <<>> \/ Len(vec_a) # Len(vec_b)
    THEN FZero
    ELSE LET dot_product == FromInt(SumProd(vec_a, vec_b))
             norm_a      == FSqrt(FromInt(SumProd(vec_a, vec_a)))
             norm_b      == FSqrt(FromInt(SumProd(vec_b, vec_b)))
         IN  IF norm_a = FZero \/ norm_b = FZero
             THEN FZero
             ELSE FDiv(dot_product, norm_a)

\* Lines 23-35
cosine_similarity(vec_a, vec_b) ==
    IF vec_a = <<>> \/ vec_b = <<>> \/ Len(vec_a) # Len(vec_b)
    THEN FZero
    ELSE LET dot_product == FromInt(SumProd(vec_a, vec_b))
             norm_a      == FSqrt(FromInt(SumProd(vec_a, vec_a)))
             norm_b      == FSqrt(FromInt(SumProd(vec_b, vec_b)))
         IN  IF norm_a = FZero \/ norm_b = FZero
             THEN FZero
             ELSE FDiv(dot_product, FMul(norm_a, norm_b))

\* The value of a natural of at most two limbs.
BToInt(x) == LimbAt(x, 1) + Limb * LimbAt(x, 2)

\* round(x, 3) for |x| < 2: the number of thousandths nearest to the exact
\* value of x (ties to even), then the double nearest to that decimal.
Thousandths(x) ==
    IF x.sign = 0 THEN 0
    ELSE LET a  == BMul(x.man, BFromInt(1000))
             k  == 0 - x.exp
             q  == BShr(a, k)
             c  == BCmp(BLow(a, k), BShl(<<1>>, k - 1))
             up == c > 0 \/ (c = 0 /\ BOdd(q))
         IN  x.sign * (BToInt(q) + (IF up THEN 1 ELSE 0))

Round3(x) == FDiv(FromInt(Thousandths(x)), FromInt(1000))

\* The literal 0.5 of the threshold test.
Half == FDiv(FromInt(1), FromInt(2))

(***************************************************************************)
(* Text.  A str is a sequence of pieces: single characters, or a literal   *)
(* chunk of the program text; its value is the pieces joined.              *)
(***************************************************************************)
\* The characters str.strip() takes from the ends of a str, those of
\* str.isspace(): U+0009 to U+000D, U+001C to U+001F, U+0020, U+0085, U+00A0,
\* U+1680, U+2000 to U+200A, U+2028, U+2029, U+202F, U+205F and U+3000.  The
\* characters from U+2000 on cannot stand in a string of this language and
\* in no question of the model; the others are all here, those without an
\* escape (U+000B, U+001C to U+001F, U+0085, U+00A0, U+1680) as themselves.
Whitespace ==
    {"\t", "\n", "\f", "\r", " "}
    \cup {"", "", "", "", "", "", " ", " "}

RECURSIVE LStrip(_)
LStrip(s) == IF s # <<>> /\ Head(s) \in Whitespace THEN LStrip(Tail(s)) ELSE s

RECURSIVE RStrip(_)
RStrip(s) ==
    IF s # <<>> /\ s[Len(s)] \in Whitespace THEN RStrip(SubSeq(s, 1, Len(s) - 1)) ELSE s

\* str.strip()
Strip(s) == RStrip(LStrip(s))

\* "".join(s): the pieces of s as one string of characters.
RECURSIVE Join(_)
Join(s) == IF s = <<>> THEN "" ELSE Head(s) \o Join(Tail(s))

\* sub in s: the characters of sub occur in a row among those of s,
\* wherever the pieces of either end.  An occurrence piece by piece is one;
\* failing that, the joined strings are searched.
Contains(s, sub) ==
    \/ \E i \in 0..(Len(s) - Len(sub)) : SubSeq(s, i + 1, i + Len(sub)) = sub
    \/ LET text == Join(s)
           part == Join(sub)
       IN  \E i \in 0..(Len(text) - Len(part)) :
               SubSeq(text, i + 1, i + Len(part)) = part

(***************************************************************************)
(* Bounds of the model.                                                    *)
(***************************************************************************)
MaxDim      == 4      \* components of an embedding
MaxCorpus   == 2      \* entries in faq_data.json
MaxQueryLen == 1      \* characters in a posted question

Comp == {0, 1}

RECURSIVE VecOfLen(_, _)
VecOfLen(n, comps) ==
    IF n = 0 THEN {<<>>} ELSE {<<x>> \o v : x \in comps, v \in VecOfLen(n - 1, comps)}

\* The ones of v stand together at one end.
EndBlock(v) ==
    \/ \A i \in 1..(Len(v) - 1) : v[i] >= v[i + 1]
    \/ \A i \in 1..(Len(v) - 1) : v[i] <= v[i + 1]

\* The embeddings the provider may return: MaxDim components, the ones in a
\* block at one end, or no component at all.
Vec == {<<>>} \cup {v \in VecOfLen(MaxDim, Comp) : EndBlock(v)}

\* The operands cosine_similarity is tried on by itself: signed components
\* in one and two dimensions, unsigned ones in up to MaxDim.
CosVec ==
    VecOfLen(1, {-1, 0, 1}) \cup VecOfLen(2, {-1, 0, 1})
    \cup UNION {VecOfLen(n, Comp) : n \in 0..MaxDim}

\* Embeddings of a provider that does not keep to one dimensionality, or to
\* components of 0 and 1: vectors of 0, 1, 2 and 3 components.
LenVec == {<<>>, <<1>>, <<1, 0>>, <<0, 1>>, <<3, 4, 0>>, <<0, 4, 5>>}

\* cosine_similarity on every pair of provider vectors and round(score, 3) on
\* every score, evaluated once and looked up by the steps of the handler.
ScoreTable == {<<x, y, cosine_similarity(x, y)>> : x \in Vec, y \in Vec}

LenScoreTable == {<<x, y, cosine_similarity(x, y)>> : x \in LenVec, y \in LenVec}

Score(x, y) ==
    IF x \in Vec /\ y \in Vec
    THEN (CHOOSE t \in ScoreTable : t[1] = x /\ t[2] = y)[3]
    ELSE (CHOOSE t \in LenScoreTable : t[1] = x /\ t[2] = y)[3]

RoundTable ==
    {<<s, Round3(s)>> : s \in {t[3] : t \in ScoreTable \cup LenScoreTable} \cup {FZero}}

Rounded(s) == (CHOOSE t \in RoundTable : t[1] = s)[2]

RECURSIVE StrUpTo(_)
StrUpTo(n) ==
    IF n = 0 THEN {<<>>}
    ELSE LET shorter == StrUpTo(n - 1)
         IN  shorter \cup {<<c>> \o t : c \in {" ", "\n", "a"}, t \in {u \in shorter : Len(u) = n - 1}}

QueryStrings == StrUpTo(MaxQueryLen)

\* faq_data.json: a list of {question, answer} objects.
FaqTexts ==
    << [question |-> <<"Q1">>, answer |-> <<"A1">>],
       [question |-> <<"Q2">>, answer |-> <<"A2">>],
       [question |-> <<"Q3">>, answer |-> <<"A3">>],
       [question |-> <<"Q4">>, answer |-> <<"A4">>] >>

Corpora == {SubSeq(FaqTexts, 1, n) : n \in 0..MaxCorpus}

(***************************************************************************)
(* The two providers.  What one POST can come to: a 2xx reply whose body   *)
(* is the expected JSON object, a requests.RequestException (connection    *)
(* refused, timeout after 45 s, raise_for_status on a 4xx/5xx), or a 2xx   *)
(* reply with another body.                                                *)
(***************************************************************************)
RequestExceptions == {"ConnectionError", "Timeout", "HTTPError"}

NoVec == <<>>

EmbedOutcomes ==
    {[kind |-> "ok", embedding |-> v] : v \in Vec}
    \cup {[kind |-> k, embedding |-> NoVec] :
            k \in RequestExceptions \cup {"not_json", "json_array", "no_embedding_key"}}

Generated == <<"generated text">>

CompleteOutcomes ==
    {[kind |-> k, response |-> IF k = "ok" THEN Generated ELSE <<>>] :
       k \in {"ok"} \cup RequestExceptions \cup {"not_json", "json_array", "no_response_key"}}

\* get_embedding(text) given the outcome of its POST: the vector, None, or an
\* exception leaving the function.
get_embedding(out) ==
    IF out.kind \in RequestExceptions
    THEN [raised |-> "", none |-> TRUE, vector |-> NoVec]
    ELSE IF out.kind = "not_json"
    THEN [raised |-> "JSONDecodeError", none |-> FALSE, vector |-> NoVec]
    ELSE IF out.kind = "json_array"
    THEN [raised |-> "AttributeError", none |-> FALSE, vector |-> NoVec]
    ELSE IF out.kind = "no_embedding_key"
    THEN [raised |-> "", none |-> TRUE, vector |-> NoVec]
    ELSE [raised |-> "", none |-> FALSE, vector |-> out.embedding]

(***************************************************************************)
(* list.sort(key=..., reverse=True) on a list shorter than 64: reverse,    *)
(* take the leading run, insert the rest by binary search, reverse.        *)
(***************************************************************************)
RECURSIVE Reverse(_)
Reverse(s) == IF s = <<>> THEN <<>> ELSE Reverse(Tail(s)) \o <<Head(s)>>

\* key=lambda pair: pair[0]
KeyOf(pair) == pair[1]

\* count_run: the last index of the run that starts the list, strictly
\* descending (desc) or non-descending.
RECURSIVE RunEnd(_, _, _)
RunEnd(s, i, desc) ==
    IF i > Len(s) THEN Len(s)
    ELSE IF desc = FLess(KeyOf(s[i]), KeyOf(s[i - 1]))
    THEN RunEnd(s, i + 1, desc)
    ELSE i - 1

\* binarysort's search: how many of the first r elements stay before pivot.
RECURSIVE InsertionPoint(_, _, _, _)
InsertionPoint(s, pivot, l, r) ==
    IF l >= r THEN l
    ELSE LET p == l + ((r - l) \div 2)
         IN  IF FLess(KeyOf(pivot), KeyOf(s[p + 1]))
             THEN InsertionPoint(s, pivot, l, p)
             ELSE InsertionPoint(s, pivot, p + 1, r)

\* binarysort: the first n elements are sorted; insert the others in turn.
RECURSIVE BinarySort(_, _)
BinarySort(s, n) ==
    IF n >= Len(s) THEN s
    ELSE LET l == InsertionPoint(s, s[n + 1], 0, n)
         IN  BinarySort(SubSeq(s, 1, l) \o <<s[n + 1]>> \o SubSeq(s, l + 1, n)
                          \o SubSeq(s, n + 2, Len(s)), n + 1)

SortAscending(s) ==
    IF Len(s) < 2 THEN s
    ELSE LET desc == FLess(KeyOf(s[2]), KeyOf(s[1]))
             n    == RunEnd(s, 3, desc)
         IN  BinarySort(IF desc THEN Reverse(SubSeq(s, 1, n)) \o SubSeq(s, n + 1, Len(s))
                                ELSE s, n)

\* Faulty variant of SortReverse: sorted ascending, then reversed, which
\* turns equal keys around.
SortReverseUnstable(s) == Reverse(SortAscending(s))

\* list.sort(key=..., reverse=True)
SortReverse(s) == Reverse(SortAscending(Reverse(s)))

\* zip(FAQ_VECTORS, FAQ_ITEMS) scored against question_vector, from entry i.
RECURSIVE ScoredFrom(_, _, _, _)
ScoredFrom(question_vector, faq_vectors, faq_items, i) ==
    IF i > Len(faq_vectors) \/ i > Len(faq_items) THEN <<>>
    ELSE << <<Score(question_vector, faq_vectors[i]), faq_items[i]>> >>
         \o ScoredFrom(question_vector, faq_vectors, faq_items, i + 1)

\* rank_faq_items past the embedding call, for a question_vector not None
rank_faq_items(question_vector, faq_vectors, faq_items) ==
    SortReverse(ScoredFrom(question_vector, faq_vectors, faq_items, 1))

\* Faulty variant of PromptFor: the line of the user's question is left out.
PromptWithoutQuestion(question, context_answer) ==
    <<"You are a helpful FAQ assistant. Use the provided answer as trusted context to respond to the user's question. If the context does not cover the question, say you are unsure and ask the user to rephrase.\n\n",
      "Context answer: ">> \o context_answer
    \o <<"\n", "Respond in 2-3 friendly sentences.">>

\* The prompt call_ollama_with_context posts.
PromptFor(question, context_answer) ==
    <<"You are a helpful FAQ assistant. Use the provided answer as trusted context to respond to the user's question. If the context does not cover the question, say you are unsure and ask the user to rephrase.\n\n",
      "Context answer: ">> \o context_answer
    \o <<"\n", "User question: ">> \o question
    \o <<"\n", "Respond in 2-3 friendly sentences.">>

Unreachable ==
    <<"I found a similar answer but could not reach the AI writer. ",
      "Please try again later. Technical details: ">>

\* Faulty variant of call_ollama_with_context: data.get("response", "")
CallOllamaEmptyDefault(context_answer, out) ==
    IF out.kind \in RequestExceptions
    THEN [raised |-> "", text |-> Unreachable \o <<out.kind>>]
    ELSE IF out.kind = "not_json"
    THEN [raised |-> "JSONDecodeError", text |-> <<>>]
    ELSE IF out.kind = "json_array"
    THEN [raised |-> "AttributeError", text |-> <<>>]
    ELSE IF out.kind = "no_response_key"
    THEN [raised |-> "", text |-> <<>>]
    ELSE [raised |-> "", text |-> out.response]

\* call_ollama_with_context(question, context_answer) given the outcome of
\* its POST: the text returned, or an exception leaving the function.
call_ollama_with_context(context_answer, out) ==
    IF out.kind \in RequestExceptions
    THEN [raised |-> "", text |-> Unreachable \o <<out.kind>>]
    ELSE IF out.kind = "not_json"
    THEN [raised |-> "JSONDecodeError", text |-> <<>>]
    ELSE IF out.kind = "json_array"
    THEN [raised |-> "AttributeError", text |-> <<>>]
    ELSE IF out.kind = "no_response_key"
    THEN [raised |-> "", text |-> context_answer]
    ELSE [raised |-> "", text |-> out.response]

(***************************************************************************)
(* The request body as request.get_json(silent=True) hands it over: None   *)
(* (no_json), an object without the key or with a null or a string under   *)
(* it, a JSON value that is no object and falsy ([], 0, false, "":          *)
(* json_empty), or one that is no object and truthy, such as [1]           *)
(* (json_array).                                                           *)
(***************************************************************************)
Bodies ==
    {[kind |-> k, question |-> <<>>] :
        k \in {"no_json", "no_question_key", "question_null", "json_empty", "json_array"}}
    \cup {[kind |-> "question_str", question |-> q] : q \in QueryStrings}
    \cup {[kind |-> "question_str", question |-> <<c>>] : c \in Whitespace}

\* Faulty variant of QuestionOf: .strip() left out.
QuestionOfNoStrip(body) ==
    IF body.kind = "json_array"
    THEN [raised |-> "AttributeError", question |-> <<>>]
    ELSE IF body.kind = "question_null"
    THEN [raised |-> "", question |-> <<"N", "o", "n", "e">>]
    ELSE IF body.kind = "question_str"
    THEN [raised |-> "", question |-> body.question]
    ELSE [raised |-> "", question |-> <<>>]

\* Lines 129-130: body = request.get_json(silent=True) or {};
\* question = str(body.get("question", "")).strip()
\* `or {}` replaces None and every other falsy body by the empty object;
\* a truthy body that is no object has no .get.
QuestionOf(body) ==
    IF body.kind = "json_array"
    THEN [raised |-> "AttributeError", question |-> <<>>]
    ELSE IF body.kind = "question_null"
    THEN [raised |-> "", question |-> Strip(<<"N", "o", "n", "e">>)]
    ELSE IF body.kind = "question_str"
    THEN [raised |-> "", question |-> Strip(body.question)]
    ELSE [raised |-> "", question |-> Strip(<<>>)]

(***************************************************************************)
(* The responses of /faq.  keys are the keys of the JSON object sent; a    *)
(* key not sent has an empty value.  status 500 is the response the server *)
(* makes from an exception that left the handler.                          *)
(***************************************************************************)
NoResult ==
    [status |-> 0, keys |-> {}, answer |-> <<>>, error |-> <<>>,
     match_question |-> <<>>, match_score |-> FZero, exception |-> ""]

InvalidInput ==
    [NoResult EXCEPT !.status = 400, !.keys = {"error"},
                     !.error = <<"Please send a question.">>]

NoCloseMatch == <<"I could not find a close match. Please rephrase or ask a team member.">>

\* Faulty variant of Fallback: the score is not passed on.
FallbackZeroScore(top_score) ==
    [NoResult EXCEPT !.status = 200, !.keys = {"answer", "match_score"},
                     !.answer = NoCloseMatch, !.match_score = FZero]

\* Lines 139-146
Fallback(top_score) ==
    [NoResult EXCEPT !.status = 200, !.keys = {"answer", "match_score"},
                     !.answer = NoCloseMatch, !.match_score = Rounded(top_score)]

Answer(generated, top_item, top_score) ==
    [NoResult EXCEPT !.status = 200, !.keys = {"answer", "match_question", "match_score"},
                     !.answer = generated, !.match_question = top_item.question,
                     !.match_score = Rounded(top_score)]

Unhandled(exc) == [NoResult EXCEPT !.status = 500, !.exception = exc]

\* Line 137: top_score, top_item = ranked[0] if ranked else (0.0, None)
TopScore(ranked) == IF ranked # <<>> THEN ranked[1][1] ELSE FZero

TopItemIsNone(ranked) == ranked = <<>>

\* Faulty variant of NoConfidentMatch: top_score <= 0.5
NoConfidentMatchInclusive(ranked) ==
    TopItemIsNone(ranked) \/ ~FLess(Half, TopScore(ranked))

\* Faulty variant of NoConfidentMatch: the threshold is not applied.
NoConfidentMatchNoThreshold(ranked) == TopItemIsNone(ranked)

\* Line 138: if top_item is None or top_score < 0.5
NoConfidentMatch(ranked) == TopItemIsNone(ranked) \/ FLess(TopScore(ranked), Half)

\* faq_endpoint run from its first line to its return by one thread alone:
\* the response to body over the index faq_vectors, faq_items when the POST
\* of get_embedding comes to embed_reply and the POST of
\* call_ollama_with_context to complete_reply.
faq_endpoint(body, embed_reply, complete_reply, faq_vectors, faq_items) ==
    LET q == QuestionOf(body)
    IN  IF q.raised # "" THEN Unhandled(q.raised)
        ELSE IF q.question = <<>> THEN InvalidInput
        ELSE LET question_vector == get_embedding(embed_reply)
             IN  IF question_vector.raised # "" THEN Unhandled(question_vector.raised)
                 ELSE LET ranked == IF question_vector.none THEN <<>>
                                    ELSE rank_faq_items(question_vector.vector,
                                                        faq_vectors, faq_items)
                      IN  IF NoConfidentMatch(ranked) THEN Fallback(TopScore(ranked))
                          ELSE LET top_item  == ranked[1][2]
                                   generated == call_ollama_with_context(top_item.answer,
                                                                         complete_reply)
                               IN  IF generated.raised # "" THEN Unhandled(generated.raised)
                                   ELSE Answer(generated.text, top_item, TopScore(ranked))

(***************************************************************************)
(* State.                                                                  *)
(***************************************************************************)
VARIABLES
    main_pc,        \* the process: "build", "serve", or "crashed" during import
    items,          \* build_repository_with_embeddings: list(faq_items)
    vectors,        \* build_repository_with_embeddings: vectors so far
    build_calls,    \* the texts posted to the embedding provider by the build
    build_results,  \* what get_embedding came to on each of these calls (line 69)
    FAQ_ITEMS,      \* module global, bound when the build returns
    FAQ_VECTORS,    \* module global, bound when the build returns
    req,            \* the requests being handled, one handler thread each;
                    \* embed_out and complete_out keep what the providers replied
    cos_a, cos_b,   \* operands of a cosine_similarity tried by itself
    score_ab,       \* cosine_similarity(cos_a, cos_b)
    score_ba,       \* cosine_similarity(cos_b, cos_a)
    cos_pc          \* "off", "args" or "done"

vars == <<main_pc, items, vectors, build_calls, build_results, FAQ_ITEMS, FAQ_VECTORS, req,
          cos_a, cos_b, score_ab, score_ba, cos_pc>>

cosVars   == <<cos_a, cos_b, score_ab, score_ba, cos_pc>>
buildVars == <<main_pc, items, vectors, build_calls, build_results, FAQ_ITEMS, FAQ_VECTORS>>

Reqs == {"r1"}

IdleReq ==
    [pc |-> "idle", body |-> [kind |-> "no_json", question |-> <<>>],
     question |-> <<>>, embedded |-> FALSE, question_vector |-> NoVec,
     has_ranked |-> FALSE, ranked |-> <<>>, prompt |-> <<>>,
     embed_calls |-> 0, complete_calls |-> 0,
     embed_out |-> "", complete_out |-> "", result |-> NoResult]

Init ==
    /\ main_pc = "build"
    /\ items \in Corpora
    /\ vectors = <<>>
    /\ build_calls = <<>>
    /\ build_results = <<>>
    /\ FAQ_ITEMS = <<>>
    /\ FAQ_VECTORS = <<>>
    /\ req = [r \in Reqs |-> IdleReq]
    /\ cos_a = NoVec /\ cos_b = NoVec
    /\ score_ab = FZero /\ score_ba = FZero
    /\ cos_pc = "off"

(***************************************************************************)
(* Import: lines 60-79.                                                    *)
(***************************************************************************)
\* Line 68
TextForEmbedding(item) ==
    <<"Question: ">> \o item.question \o <<"\n", "Answer: ">> \o item.answer

\* Faulty variant of BuildEmbed: the vector is put at the head of vectors.
BuildEmbedPrepends(out) ==
    /\ main_pc = "build"
    /\ Len(vectors) < Len(items)
    /\ LET item   == items[Len(vectors) + 1]
           vector == get_embedding(out)
       IN  /\ build_calls' = Append(build_calls, TextForEmbedding(item))
           /\ build_results' = Append(build_results, vector)
           /\ IF vector.raised # ""
              THEN main_pc' = "crashed" /\ UNCHANGED vectors
              ELSE /\ vectors' = <<IF vector.none THEN <<>> ELSE vector.vector>> \o vectors
                   /\ UNCHANGED main_pc
    /\ UNCHANGED <<items, FAQ_ITEMS, FAQ_VECTORS, req, cosVars>>

\* One turn of the loop of lines 67-74, the provider answering with out.
BuildEmbed(out) ==
    /\ main_pc = "build"
    /\ Len(vectors) < Len(items)
    /\ LET item   == items[Len(vectors) + 1]
           vector == get_embedding(out)
       IN  /\ build_calls' = Append(build_calls, TextForEmbedding(item))
           /\ build_results' = Append(build_results, vector)
           /\ IF vector.raised # ""
              THEN main_pc' = "crashed" /\ UNCHANGED vectors
              ELSE /\ vectors' = Append(vectors, IF vector.none THEN <<>> ELSE vector.vector)
                   /\ UNCHANGED main_pc
    /\ UNCHANGED <<items, FAQ_ITEMS, FAQ_VECTORS, req, cosVars>>

\* Lines 76 and 79, then app.run.
BuildReturn ==
    /\ main_pc = "build"
    /\ Len(vectors) = Len(items)
    /\ FAQ_ITEMS' = items
    /\ FAQ_VECTORS' = vectors
    /\ main_pc' = "serve"
    /\ UNCHANGED <<items, vectors, build_calls, build_results, req, cosVars>>

(***************************************************************************)
(* faq_endpoint: lines 126-157.                                            *)
(***************************************************************************)
\* Faulty variant of Receive: the server takes requests while the build of
\* line 79 is still running.
ReceiveDuringBuild(r, body) ==
    /\ main_pc \in {"build", "serve"}
    /\ req[r].pc = "idle"
    /\ req' = [req EXCEPT ![r] = [IdleReq EXCEPT !.pc = "received", !.body = body]]
    /\ UNCHANGED <<buildVars, cosVars>>

Receive(r, body) ==
    /\ main_pc = "serve"
    /\ req[r].pc = "idle"
    /\ req' = [req EXCEPT ![r] = [IdleReq EXCEPT !.pc = "received", !.body = body]]
    /\ UNCHANGED <<buildVars, cosVars>>

\* Lines 129-133
Validate(r) ==
    /\ req[r].pc = "received"
    /\ LET q == QuestionOf(req[r].body)
       IN  req' = [req EXCEPT ![r] =
                IF q.raised # ""
                THEN [@ EXCEPT !.pc = "returned", !.result = Unhandled(q.raised)]
                ELSE IF q.question = <<>>
                THEN [@ EXCEPT !.pc = "returned", !.result = InvalidInput]
                ELSE [@ EXCEPT !.pc = "validated", !.question = q.question]]
    /\ UNCHANGED <<buildVars, cosVars>>

\* Line 84 down to the POST of get_embedding.
EmbedCall(r) ==
    /\ req[r].pc = "validated"
    /\ req' = [req EXCEPT ![r] = [@ EXCEPT !.pc = "embed_wait",
                                           !.embed_calls = @ + 1]]
    /\ UNCHANGED <<buildVars, cosVars>>

\* Faulty variant of EmbedReturn: after a requests.RequestException the POST
\* is made again.
EmbedReturnRetries(r, out) ==
    /\ req[r].pc = "embed_wait"
    /\ LET question_vector == get_embedding(out)
       IN  req' = [req EXCEPT ![r] =
                IF out.kind \in RequestExceptions
                THEN [@ EXCEPT !.pc = "validated"]
                ELSE IF question_vector.raised # ""
                THEN [@ EXCEPT !.pc = "returned", !.embed_out = out.kind,
                               !.result = Unhandled(question_vector.raised)]
                ELSE IF question_vector.none
                THEN [@ EXCEPT !.pc = "ranked", !.embed_out = out.kind,
                               !.has_ranked = TRUE, !.ranked = <<>>]
                ELSE [@ EXCEPT !.pc = "embedded", !.embed_out = out.kind,
                               !.embedded = TRUE,
                               !.question_vector = question_vector.vector]]
    /\ UNCHANGED <<buildVars, cosVars>>

\* Faulty variant of EmbedReturn: the POST is made without timeout, and a
\* provider that does not answer leaves the handler waiting.
EmbedReturnNoTimeout(r, out) ==
    /\ req[r].pc = "embed_wait"
    /\ LET question_vector == get_embedding(out)
       IN  req' = [req EXCEPT ![r] =
                IF out.kind = "Timeout"
                THEN [@ EXCEPT !.pc = "embed_hung"]
                ELSE IF question_vector.raised # ""
                THEN [@ EXCEPT !.pc = "returned", !.embed_out = out.kind,
                               !.result = Unhandled(question_vector.raised)]
                ELSE IF question_vector.none
                THEN [@ EXCEPT !.pc = "ranked", !.embed_out = out.kind,
                               !.has_ranked = TRUE, !.ranked = <<>>]
                ELSE [@ EXCEPT !.pc = "embedded", !.embed_out = out.kind,
                               !.embedded = TRUE,
                               !.question_vector = question_vector.vector]]
    /\ UNCHANGED <<buildVars, cosVars>>

\* Lines 52-57 and 85-86: the POST is over.
EmbedReturn(r, out) ==
    /\ req[r].pc = "embed_wait"
    /\ LET question_vector == get_embedding(out)
       IN  req' = [req EXCEPT ![r] =
                IF question_vector.raised # ""
                THEN [@ EXCEPT !.pc = "returned", !.embed_out = out.kind,
                               !.result = Unhandled(question_vector.raised)]
                ELSE IF question_vector.none
                THEN [@ EXCEPT !.pc = "ranked", !.embed_out = out.kind,
                               !.has_ranked = TRUE, !.ranked = <<>>]
                ELSE [@ EXCEPT !.pc = "embedded", !.embed_out = out.kind,
                               !.embedded = TRUE,
                               !.question_vector = question_vector.vector]]
    /\ UNCHANGED <<buildVars, cosVars>>

\* Faulty variant of Rank: scored_items is one list shared by the handler
\* threads, so a ranking made shows in every request that holds a ranking.
RankSharedList(r) ==
    /\ req[r].pc = "embedded"
    /\ LET scored_items == rank_faq_items(req[r].question_vector, FAQ_VECTORS, FAQ_ITEMS)
       IN  req' = [q \in DOMAIN req |->
                    IF q = r
                    THEN [req[q] EXCEPT !.pc = "ranked", !.has_ranked = TRUE,
                                        !.ranked = scored_items]
                    ELSE IF req[q].has_ranked /\ req[q].embedded
                    THEN [req[q] EXCEPT !.ranked = scored_items]
                    ELSE req[q]]
    /\ UNCHANGED <<buildVars, cosVars>>

\* Faulty variant of Rank: the scored list is cached under the question text
\* (functools.lru_cache on the question), so a request whose question a
\* request still in hand has ranked takes over that list, whatever vector
\* the embedding provider gave this time.
RankCachedByQuestion(r) ==
    /\ req[r].pc = "embedded"
    /\ LET cached == {q \in DOMAIN req :
                         /\ q # r
                         /\ req[q].has_ranked /\ req[q].embedded
                         /\ req[q].question = req[r].question}
           scored_items ==
               IF cached # {} THEN req[CHOOSE q \in cached : TRUE].ranked
               ELSE rank_faq_items(req[r].question_vector, FAQ_VECTORS, FAQ_ITEMS)
       IN  req' = [req EXCEPT ![r] =
                    [@ EXCEPT !.pc = "ranked", !.has_ranked = TRUE,
                              !.ranked = scored_items]]
    /\ UNCHANGED <<buildVars, cosVars>>

\* Faulty variant of Rank: the sort of line 93 puts the index itself in
\* ranked order.
RankSortsIndex(r) ==
    /\ req[r].pc = "embedded"
    /\ LET scored_items == rank_faq_items(req[r].question_vector, FAQ_VECTORS, FAQ_ITEMS)
       IN  /\ req' = [req EXCEPT ![r] =
                    [@ EXCEPT !.pc = "ranked", !.has_ranked = TRUE, !.ranked = scored_items]]
           /\ FAQ_ITEMS' = [i \in 1..Len(scored_items) |-> scored_items[i][2]]
    /\ UNCHANGED <<main_pc, items, vectors, build_calls, build_results, FAQ_VECTORS, cosVars>>

\* Lines 88-94
Rank(r) ==
    /\ req[r].pc = "embedded"
    /\ req' = [req EXCEPT ![r] =
            [@ EXCEPT !.pc = "ranked", !.has_ranked = TRUE,
                      !.ranked = rank_faq_items(req[r].question_vector,
                                                FAQ_VECTORS, FAQ_ITEMS)]]
    /\ UNCHANGED <<buildVars, cosVars>>

\* Lines 137-149 down to the POST of call_ollama_with_context.
Compose(r) ==
    /\ req[r].pc = "ranked"
    /\ req' = [req EXCEPT ![r] =
            IF NoConfidentMatch(req[r].ranked)
            THEN [@ EXCEPT !.pc = "returned",
                           !.result = Fallback(TopScore(req[r].ranked))]
            ELSE [@ EXCEPT !.pc = "complete_wait",
                           !.prompt = PromptFor(req[r].question, req[r].ranked[1][2].answer),
                           !.complete_calls = @ + 1]]
    /\ UNCHANGED <<buildVars, cosVars>>

\* Lines 114-123 and 151-157: the POST is over.
CompleteReturn(r, out) ==
    /\ req[r].pc = "complete_wait"
    /\ LET top_item  == req[r].ranked[1][2]
           generated == call_ollama_with_context(top_item.answer, out)
       IN  req' = [req EXCEPT ![r] =
                IF generated.raised # ""
                THEN [@ EXCEPT !.pc = "returned", !.complete_out = out.kind,
                               !.result = Unhandled(generated.raised)]
                ELSE [@ EXCEPT !.pc = "returned", !.complete_out = out.kind,
                               !.result = Answer(generated.text, top_item,
                                                 TopScore(req[r].ranked))]]
    /\ UNCHANGED <<buildVars, cosVars>>

\* The response is sent and the handler thread is free for the next request.
Finish(r) ==
    /\ req[r].pc = "returned"
    /\ req' = [req EXCEPT ![r] = IdleReq]
    /\ UNCHANGED <<buildVars, cosVars>>

Next ==
    \/ \E out \in EmbedOutcomes : BuildEmbed(out)
    \/ BuildReturn
    \/ \E r \in Reqs : \E body \in Bodies : Receive(r, body)
    \/ \E r \in Reqs : Validate(r)
    \/ \E r \in Reqs : EmbedCall(r)
    \/ \E r \in Reqs : \E out \in EmbedOutcomes : EmbedReturn(r, out)
    \/ \E r \in Reqs : Rank(r)
    \/ \E r \in Reqs : Compose(r)
    \/ \E r \in Reqs : \E out \in CompleteOutcomes : CompleteReturn(r, out)
    \/ \E r \in Reqs : Finish(r)

Spec == Init /\ [][Next]_vars

(***************************************************************************)
(* cosine_similarity tried by itself on every pair of operands.            *)
(***************************************************************************)
InitCosine ==
    /\ main_pc = "build" /\ items = <<>> /\ vectors = <<>> /\ build_calls = <<>>
    /\ build_results = <<>>
    /\ FAQ_ITEMS = <<>> /\ FAQ_VECTORS = <<>>
    /\ req = [r \in Reqs |-> IdleReq]
    /\ cos_a \in CosVec /\ cos_b \in CosVec
    /\ score_ab = FZero /\ score_ba = FZero
    /\ cos_pc = "args"

CallCosine ==
    /\ cos_pc = "args"
    /\ score_ab' = cosine_similarity(cos_a, cos_b)
    /\ score_ba' = cosine_similarity(cos_b, cos_a)
    /\ cos_pc' = "done"
    /\ UNCHANGED <<buildVars, req, cos_a, cos_b>>

NextCosine == CallCosine

SpecCosine == InitCosine /\ [][NextCosine]_vars

(***************************************************************************)
(* Two handler threads.  app.run serves each request in a thread of its    *)
(* own, so two calls of faq_endpoint can be in flight at once over the     *)
(* same FAQ_ITEMS and FAQ_VECTORS.  The corpus has MaxCorpus entries, the  *)
(* provider answers with vectors of ConcVec, and the questions posted      *)
(* carry whitespace around the text.                                       *)
(***************************************************************************)
ConcReqs == {"r1", "r2"}

\* Full-length vectors with a single 1 at an end, or with every component 1.
ConcVec == {v \in Vec : Len(v) = MaxDim /\ SumProd(v, v) \in {1, MaxDim}}

ConcBuildOutcomes == {out \in EmbedOutcomes : out.kind = "ok" /\ out.embedding \in ConcVec}

ConcEmbedOutcomes == {out \in EmbedOutcomes : out.kind = "ok" => out.embedding \in ConcVec}

ConcBodies ==
    {[kind |-> "question_str", question |-> q] :
        q \in {<<"a">>, <<"a", " ">>, <<"\n", "a">>, <<" ">>}}

InitConcurrent ==
    /\ main_pc = "build"
    /\ items = SubSeq(FaqTexts, 1, MaxCorpus)
    /\ vectors = <<>>
    /\ build_calls = <<>>
    /\ build_results = <<>>
    /\ FAQ_ITEMS = <<>>
    /\ FAQ_VECTORS = <<>>
    /\ req = [r \in ConcReqs |-> IdleReq]
    /\ cos_a = NoVec /\ cos_b = NoVec
    /\ score_ab = FZero /\ score_ba = FZero
    /\ cos_pc = "off"

NextConcurrent ==
    \/ \E out \in ConcBuildOutcomes : BuildEmbed(out)
    \/ BuildReturn
    \/ \E r \in ConcReqs : \E body \in ConcBodies : Receive(r, body)
    \/ \E r \in ConcReqs : Validate(r)
    \/ \E r \in ConcReqs : EmbedCall(r)
    \/ \E r \in ConcReqs : \E out \in ConcEmbedOutcomes : EmbedReturn(r, out)
    \/ \E r \in ConcReqs : Rank(r)
    \/ \E r \in ConcReqs : Compose(r)
    \/ \E r \in ConcReqs : \E out \in CompleteOutcomes : CompleteReturn(r, out)
    \/ \E r \in ConcReqs : Finish(r)

SpecConcurrent == InitConcurrent /\ [][NextConcurrent]_vars

(***************************************************************************)
(* A provider of mixed dimensionality.  Nothing in get_embedding or in     *)
(* build_repository_with_embeddings looks at the length of the list the    *)
(* provider returns, so the build and the handler are run here with the    *)
(* vectors of LenVec, one handler thread, and a question of one letter, of *)
(* one blank, or of a letter with whitespace on both sides.                *)
(***************************************************************************)
LenEmbedOutcomes ==
    {[kind |-> "ok", embedding |-> v] : v \in LenVec}
    \cup {out \in EmbedOutcomes : out.kind # "ok"}

LenBodies ==
    {[kind |-> "question_str", question |-> q] :
        q \in {<<"a">>, <<" ">>, <<"\t", "a", "\r", "\n">>}}

InitLengths ==
    /\ main_pc = "build"
    /\ items \in Corpora
    /\ vectors = <<>>
    /\ build_calls = <<>>
    /\ build_results = <<>>
    /\ FAQ_ITEMS = <<>>
    /\ FAQ_VECTORS = <<>>
    /\ req = [r \in Reqs |-> IdleReq]
    /\ cos_a = NoVec /\ cos_b = NoVec
    /\ score_ab = FZero /\ score_ba = FZero
    /\ cos_pc = "off"

NextLengths ==
    \/ \E out \in LenEmbedOutcomes : BuildEmbed(out)
    \/ BuildReturn
    \/ \E r \in Reqs : \E body \in LenBodies : Receive(r, body)
    \/ \E r \in Reqs : Validate(r)
    \/ \E r \in Reqs : EmbedCall(r)
    \/ \E r \in Reqs : \E out \in LenEmbedOutcomes : EmbedReturn(r, out)
    \/ \E r \in Reqs : Rank(r)
    \/ \E r \in Reqs : Compose(r)
    \/ \E r \in Reqs : \E out \in CompleteOutcomes : CompleteReturn(r, out)
    \/ \E r \in Reqs : Finish(r)

SpecLengths == InitLengths /\ [][NextLengths]_vars

(***************************************************************************)
(* Progress of a request.  A handler thread that can take its next step    *)
(* takes it, and a POST is over in the end: requests.post is given         *)
(* timeout=45 at lines 50 and 112, so a provider that does not answer      *)
(* ends the call with requests.exceptions.Timeout.  Nothing is assumed     *)
(* about when a request arrives.  What a request waits on does not depend  *)
(* on the size of the corpus, which here has no, one or two entries.       *)
(***************************************************************************)
LiveCorpora == {<<>>, SubSeq(FaqTexts, 1, 1), SubSeq(FaqTexts, 1, 2)}

InitLive ==
    /\ main_pc = "build"
    /\ items \in LiveCorpora
    /\ vectors = <<>>
    /\ build_calls = <<>>
    /\ build_results = <<>>
    /\ FAQ_ITEMS = <<>>
    /\ FAQ_VECTORS = <<>>
    /\ req = [r \in Reqs |-> IdleReq]
    /\ cos_a = NoVec /\ cos_b = NoVec
    /\ score_ab = FZero /\ score_ba = FZero
    /\ cos_pc = "off"

HandlerFairness ==
    \A r \in Reqs :
        /\ WF_vars(Validate(r))
        /\ WF_vars(EmbedCall(r))
        /\ WF_vars(\E out \in LenEmbedOutcomes : EmbedReturn(r, out))
        /\ WF_vars(Rank(r))
        /\ WF_vars(Compose(r))
        /\ WF_vars(\E out \in CompleteOutcomes : CompleteReturn(r, out))

SpecLive == InitLive /\ [][NextLengths]_vars /\ HandlerFairness

(***************************************************************************)
(* Properties.                                                             *)
(***************************************************************************)
One == FromInt(1)

\* q has no character other than whitespace.
IsBlank(q) == \A i \in 1..Len(q) : q[i] \in Whitespace

\* The body carries an empty or blank query, or none.
BlankQuery(body) ==
    \/ body.kind \in {"no_json", "json_empty", "no_question_key"}
    \/ body.kind = "question_str" /\ IsBlank(body.question)

\* The result is the fallback: status 200, the fixed text, no matched question.
IsFallback(res) ==
    /\ res.status = 200
    /\ res.keys = {"answer", "match_score"}
    /\ res.answer = NoCloseMatch
    /\ res.match_question = <<>>

\* C1: a query that is empty or only whitespace is answered with InvalidInput
\* (status 400 and an error field), and neither the embedding provider nor
\* the completion provider is called for it.
C1_BlankQueryIsInvalidInput ==
    \A r \in Reqs :
        (req[r].pc # "idle" /\ BlankQuery(req[r].body)) =>
            /\ req[r].embed_calls = 0
            /\ req[r].complete_calls = 0
            /\ req[r].pc \in {"received", "returned"}
            /\ req[r].pc = "returned" =>
                   /\ req[r].result = InvalidInput
                   /\ req[r].result.status = 400
                   /\ "error" \in req[r].result.keys

\* A whitespace-only query has been answered.
C1_Witness ==
    \E r \in Reqs :
        /\ req[r].pc = "returned"
        /\ req[r].body.kind = "question_str"
        /\ req[r].body.question # <<>>
        /\ IsBlank(req[r].body.question)
        /\ req[r].result.status = 400
        /\ req[r].embed_calls = 0

\* C2: for a non-blank query, whatever the embedding call and the completion
\* call come to (success, transport error, timeout, HTTP error status,
\* malformed or non-JSON payload), the handler returns a well-formed result
\* and no exception leaves it.
C2_NeverRaises ==
    \A r \in Reqs :
        (req[r].pc = "returned" /\ req[r].question # <<>>) =>
            /\ req[r].result.exception = ""
            /\ req[r].result.status = 200
            /\ {"answer", "match_score"} \subseteq req[r].result.keys

\* What the embedding call can fail with, a malformed payload included.
EmbedFailures == RequestExceptions \cup {"not_json", "json_array", "no_embedding_key"}

\* C3: when the embedding call for the query fails, the request ends in the
\* fallback result with no matched question and score 0.0, and the
\* completion provider is not called during it.
C3_EmbeddingFailureFallsBack ==
    \A r \in Reqs :
        req[r].embed_out \in EmbedFailures =>
            /\ req[r].complete_calls = 0
            /\ req[r].pc = "returned" =>
                   /\ IsFallback(req[r].result)
                   /\ req[r].result.match_score = FZero

\* What the completion call can fail with, a malformed payload included.
CompleteFailures == RequestExceptions \cup {"not_json", "json_array", "no_response_key"}

\* C4: when the top score reaches the threshold and the completion call
\* fails, the result names the top entry's question, carries the top score,
\* and its text is the degraded-service explanation, not the stored answer.
C4_CompletionFailureKeepsMatch ==
    \A r \in Reqs :
        (req[r].pc = "returned" /\ req[r].complete_out \in CompleteFailures) =>
            /\ req[r].result.status = 200
            /\ "match_question" \in req[r].result.keys
            /\ req[r].result.match_question = req[r].ranked[1][2].question
            /\ req[r].result.match_score = req[r].ranked[1][1]
            /\ Len(req[r].result.answer) > Len(Unreachable)
            /\ SubSeq(req[r].result.answer, 1, Len(Unreachable)) = Unreachable
            /\ req[r].result.answer # req[r].ranked[1][2].answer

\* The ranked list is not empty and its top score is not below 0.5.
Confident(ranked) == ranked # <<>> /\ ~FLess(ranked[1][1], Half)

\* C5: the completion provider is called if and only if the ranked list is
\* not empty and its top score is not below 0.5 (0.5 itself is confident);
\* the prompt then carries the stored answer of the top-ranked entry as
\* context; a result made without the call has no matched question.
C5_CompletionIffConfident ==
    \A r \in Reqs :
        /\ req[r].complete_calls <= 1
        /\ req[r].complete_calls = 1 =>
               /\ req[r].has_ranked
               /\ Confident(req[r].ranked)
               /\ Contains(req[r].prompt,
                           <<"Context answer: ">> \o req[r].ranked[1][2].answer \o <<"\n">>)
        /\ (req[r].has_ranked /\ req[r].pc \in {"complete_wait", "returned"}
              /\ Confident(req[r].ranked)) => req[r].complete_calls = 1
        /\ (req[r].pc = "returned" /\ req[r].complete_calls = 0) =>
               /\ "match_question" \notin req[r].result.keys
               /\ req[r].result.match_question = <<>>

\* A request whose top score is exactly 0.5 has had its completion call.
C5_Witness ==
    \E r \in Reqs :
        /\ req[r].pc = "returned"
        /\ req[r].ranked # <<>>
        /\ req[r].ranked[1][1] = Half
        /\ req[r].complete_calls = 1
        /\ req[r].result.match_question = req[r].ranked[1][2].question

\* C6 as stated: the score of a fallback result is the top score of the
\* ranking when the ranking has an entry, and 0.0 when it is empty.
C6_FallbackScoreIsTopScore ==
    \A r \in Reqs :
        (req[r].pc = "returned" /\ req[r].has_ranked /\ IsFallback(req[r].result)) =>
            req[r].result.match_score =
                IF req[r].ranked # <<>> THEN req[r].ranked[1][1] ELSE FZero

\* C6 amended: the score of a fallback result is the top score of the
\* ranking rounded to three decimals when the ranking has an entry, and 0.0
\* when it is empty.
C6_FallbackScoreIsRoundedTopScore ==
    \A r \in Reqs :
        (req[r].pc = "returned" /\ req[r].has_ranked /\ IsFallback(req[r].result)) =>
            req[r].result.match_score =
                IF req[r].ranked # <<>> THEN Rounded(req[r].ranked[1][1]) ELSE FZero

\* A fallback result whose score is not 0.0 and differs from the top score it
\* was rounded from.
C6_Witness ==
    \E r \in Reqs :
        /\ req[r].pc = "returned"
        /\ IsFallback(req[r].result)
        /\ req[r].ranked # <<>>
        /\ req[r].result.match_score # FZero
        /\ req[r].result.match_score # req[r].ranked[1][1]
        /\ req[r].result.match_score = Rounded(req[r].ranked[1][1])

\* The place of item in the corpus.
IndexOf(item) == CHOOSE k \in 1..Len(FAQ_ITEMS) : FAQ_ITEMS[k] = item

\* C7: rank returns every entry of the index with its score, in descending
\* order of score, two entries of identical score in corpus order.
C7_RankDescendingStable ==
    \A r \in Reqs :
        (req[r].has_ranked /\ req[r].embedded) =>
            LET rk == req[r].ranked
                qv == req[r].question_vector
            IN  /\ Len(rk) = Len(FAQ_ITEMS)
                /\ \A k \in 1..Len(FAQ_ITEMS) :
                       \E i \in 1..Len(rk) :
                           rk[i] = <<Score(qv, FAQ_VECTORS[k]), FAQ_ITEMS[k]>>
                /\ \A i \in 1..Len(rk) : \A j \in 1..Len(rk) :
                       i < j =>
                           /\ ~FLess(rk[i][1], rk[j][1])
                           /\ rk[i][1] = rk[j][1] => IndexOf(rk[i][2]) < IndexOf(rk[j][2])

\* Two entries with different vectors tie on a score that is not 0.0.
C7_Witness ==
    \E r \in Reqs :
        /\ req[r].has_ranked /\ req[r].embedded
        /\ Len(req[r].ranked) >= 2
        /\ req[r].ranked[1][1] = req[r].ranked[2][1]
        /\ req[r].ranked[1][1] # FZero
        /\ FAQ_VECTORS[1] # FAQ_VECTORS[2]

\* The operand has no component other than 0, so its norm is exactly 0.
ZeroNorm(v) == \A i \in 1..Len(v) : v[i] = 0

\* C8: cosine_similarity returns exactly 0.0 when an operand is empty, when
\* the operands differ in length, and when an operand has norm exactly 0.
C8_CosineDegenerateIsZero ==
    (cos_pc = "done" /\ (\/ cos_a = <<>> \/ cos_b = <<>>
                         \/ Len(cos_a) # Len(cos_b)
                         \/ ZeroNorm(cos_a) \/ ZeroNorm(cos_b))) =>
        (score_ab = FZero /\ score_ba = FZero)

\* Two operands of different lengths, neither empty nor of norm 0.
C8_Witness ==
    /\ cos_pc = "done"
    /\ cos_a # <<>> /\ cos_b # <<>> /\ Len(cos_a) # Len(cos_b)
    /\ ~ZeroNorm(cos_a) /\ ~ZeroNorm(cos_b)
    /\ score_ab = FZero

\* C9: for operands of equal nonzero length, cosine(a, b) = cosine(b, a).
C9_CosineSymmetric ==
    (cos_pc = "done" /\ Len(cos_a) = Len(cos_b) /\ Len(cos_a) > 0) =>
        score_ab = score_ba

\* Two different operands of different norms with a score between 0 and 1.
C9_Witness ==
    /\ cos_pc = "done"
    /\ Len(cos_a) = Len(cos_b)
    /\ SumProd(cos_a, cos_a) # SumProd(cos_b, cos_b)
    /\ score_ab # FZero /\ score_ab # One
    /\ score_ab = score_ba

\* |x - 1.0| <= 1e-9
WithinTolerance(x) ==
    /\ x.sign = 1
    /\ x.exp < 0
    /\ LET one  == BShl(<<1>>, 0 - x.exp)
           diff == IF BCmp(x.man, one) >= 0 THEN BSub(x.man, one) ELSE BSub(one, x.man)
       IN  BCmp(BMul(diff, BFromInt(1000000000)), one) <= 0

\* C10 as stated: for every vector a of nonzero length, cosine(a, a) is 1.0.
C10_CosineSelfIsOne ==
    (cos_pc = "done" /\ cos_a = cos_b /\ Len(cos_a) > 0) => score_ab = One

\* C10 amended: for every vector a of nonzero length, cosine(a, a) is within
\* 1e-9 of 1.0 when the norm of a is not 0, and 0.0 when it is.
C10_CosineSelfIsNearOne ==
    (cos_pc = "done" /\ cos_a = cos_b /\ Len(cos_a) > 0) =>
        IF ZeroNorm(cos_a) THEN score_ab = FZero ELSE WithinTolerance(score_ab)

\* cosine(a, a) has come out next to 1.0 and not equal to it.
C10_Witness ==
    /\ cos_pc = "done"
    /\ cos_a = cos_b /\ Len(cos_a) > 0 /\ ~ZeroNorm(cos_a)
    /\ score_ab # One
    /\ WithinTolerance(score_ab)

MinusOne == FromInt(-1)

\* C11 as stated: every score of a ranking made by rank lies in [-1.0, 1.0],
\* and is exactly 0.0 when the query vector or the entry's vector is empty.
C11_ScoreWithinUnitInterval ==
    \A r \in DOMAIN req :
        (req[r].has_ranked /\ req[r].embedded) =>
            \A i \in 1..Len(req[r].ranked) :
                LET s == req[r].ranked[i][1]
                    v == FAQ_VECTORS[IndexOf(req[r].ranked[i][2])]
                IN  /\ ~FLess(One, s)
                    /\ ~FLess(s, MinusOne)
                    /\ (req[r].question_vector = <<>> \/ v = <<>>) => s = FZero

\* get_embedding gave the build no vector: it returned None or raised.
BuildCallFailed(got) == got.none \/ got.raised # ""

\* C12 as stated: whenever an embedding call of the build fails (provider
\* error, timeout, malformed response), the build records the empty vector
\* for that entry and goes on; the import is not aborted.
C12_BuildSurvivesEmbeddingFailure ==
    /\ main_pc # "crashed"
    /\ \A i \in 1..Len(build_results) :
           BuildCallFailed(build_results[i]) =>
               /\ i <= Len(vectors)
               /\ vectors[i] = <<>>

\* C13: no step taken while requests are served changes the index: the
\* entries and their vectors stay those the build returned, whatever the
\* outcome of the request (InvalidInput, fallback, answer, degraded answer).
C13_RequestsLeaveIndexUnchanged ==
    [][main_pc = "serve" => (FAQ_ITEMS' = FAQ_ITEMS /\ FAQ_VECTORS' = FAQ_VECTORS)]_vars

\* A request has ended in a degraded answer whose top entry is not the first
\* of the corpus, and the index is the one the build returned.
C13_Witness ==
    \E r \in DOMAIN req :
        /\ req[r].pc = "returned"
        /\ req[r].complete_out \in RequestExceptions
        /\ Len(FAQ_ITEMS) >= 2
        /\ req[r].ranked[1][2] = FAQ_ITEMS[2]
        /\ FAQ_ITEMS = items
        /\ FAQ_VECTORS = vectors

\* What the embedding provider replied to request rq, as EmbedReturn kept it.
EmbedReplyOf(rq) == [kind |-> rq.embed_out, embedding |-> rq.question_vector]

\* What the completion provider replied to request rq.
CompleteReplyOf(rq) ==
    [kind |-> rq.complete_out,
     response |-> IF rq.complete_out = "ok" THEN Generated ELSE <<>>]

\* C14: with several requests in flight in any interleaving, the ranking
\* each one holds is the ranking of its own query vector over the index, and
\* the result each one returns is the result faq_endpoint gives when run
\* alone on the same body, the same index and the same provider replies.
C14_ConcurrentAsAlone ==
    \A r \in DOMAIN req :
        /\ (req[r].has_ranked /\ req[r].embedded) =>
               req[r].ranked = rank_faq_items(req[r].question_vector,
                                              FAQ_VECTORS, FAQ_ITEMS)
        /\ req[r].pc = "returned" =>
               req[r].result = faq_endpoint(req[r].body, EmbedReplyOf(req[r]),
                                            CompleteReplyOf(req[r]),
                                            FAQ_VECTORS, FAQ_ITEMS)

\* One request has returned an answer while another, with another query
\* vector and another top entry, waits for its completion call.
C14_Witness ==
    \E r \in DOMAIN req : \E o \in DOMAIN req :
        /\ r # o
        /\ req[r].pc = "returned" /\ req[r].complete_out = "ok"
        /\ req[o].pc = "complete_wait"
        /\ req[r].question_vector # req[o].question_vector
        /\ req[r].ranked[1][2] # req[o].ranked[1][2]
        /\ req[r].result.match_question = req[r].ranked[1][2].question

\* C15 as stated: whenever the completion provider is called, the prompt
\* holds the query text as it was sent and the stored answer of the
\* top-ranked entry.
C15_PromptHasLiteralQuery ==
    \A r \in DOMAIN req :
        req[r].complete_calls = 1 =>
            /\ Contains(req[r].prompt, req[r].body.question)
            /\ Contains(req[r].prompt, req[r].ranked[1][2].answer)

\* C15 amended: whenever the completion provider is called, the prompt holds
\* the query text with the whitespace at its ends removed, on the line
\* "User question: ", and the stored answer of the top-ranked entry, on the
\* line "Context answer: ".
C15_PromptHasStrippedQuery ==
    \A r \in DOMAIN req :
        req[r].complete_calls = 1 =>
            /\ Contains(req[r].prompt,
                        <<"User question: ">> \o Strip(req[r].body.question) \o <<"\n">>)
            /\ Contains(req[r].prompt,
                        <<"Context answer: ">> \o req[r].ranked[1][2].answer \o <<"\n">>)

\* The completion provider has been called for a query sent with whitespace
\* at an end of its text; the prompt holds the text without it and nowhere
\* the query as sent.
C15_Witness ==
    \E r \in DOMAIN req :
        /\ req[r].complete_calls = 1
        /\ req[r].body.question # Strip(req[r].body.question)
        /\ ~Contains(req[r].prompt, req[r].body.question)
        /\ Contains(req[r].prompt, Strip(req[r].body.question))
        /\ Contains(req[r].prompt, req[r].ranked[1][2].answer)

\* x and y have the same length and their dot product is 0.
Orthogonal(x, y) == Len(x) = Len(y) /\ SumProd(x, y) = 0

\* Entry k is the only one whose vector is the nonzero query vector qv, and
\* every other entry's vector is orthogonal to qv.
SoleMatch(k, qv) ==
    /\ ~ZeroNorm(qv)
    /\ FAQ_VECTORS[k] = qv
    /\ \A j \in 1..Len(FAQ_VECTORS) : j # k => Orthogonal(FAQ_VECTORS[j], qv)

\* C16 as stated: when exactly one entry's vector equals the query's
\* embedding and every other entry is orthogonal to it, rank puts that entry
\* first with score 1.0, wherever it sits in the corpus, and the result names
\* that entry's question as the matched question.
C16_SoleMatchRankedFirst ==
    \A r \in DOMAIN req : \A k \in 1..Len(FAQ_VECTORS) :
        (req[r].embedded /\ SoleMatch(k, req[r].question_vector)) =>
            /\ req[r].has_ranked =>
                   /\ req[r].ranked[1][2] = FAQ_ITEMS[k]
                   /\ req[r].ranked[1][1] = One
            /\ req[r].pc = "returned" =>
                   req[r].result.match_question = FAQ_ITEMS[k].question

\* The scores of the entries of the index for query vector qv, in corpus
\* order.
ScoresFor(qv) == [k \in 1..Len(FAQ_VECTORS) |-> Score(qv, FAQ_VECTORS[k])] \o <<>>

\* The ordering rule, on corpus indexes: entry k goes before entry l when
\* its score is greater, or when the two scores compare equal and k is the
\* smaller index.
Before(scores, k, l) ==
    \/ FLess(scores[l], scores[k])
    \/ ~FLess(scores[k], scores[l]) /\ k < l

\* The place the rule gives entry k: one more than the number of entries
\* that go before it.
Place(scores, k) == 1 + Cardinality({l \in DOMAIN scores : Before(scores, l, k)})

\* C17: retrieval is deterministic.  The query vector and the index leave
\* rank one sequence of scored entries and no other: of any two entries the
\* ordering rule puts exactly one before the other, ties included, so every
\* entry has one place, fixed by the scores alone, and every run of rank
\* holds every entry at that place; a returned match is the entry of place 1
\* with its score.  Two runs of answer with the same query, the same index
\* and the same provider replies return the same result, whatever
\* whitespace came around the query, whichever thread ran them and whatever
\* was handled before or meanwhile.
C17_Deterministic ==
    /\ \A r \in DOMAIN req :
           (req[r].has_ranked /\ req[r].embedded) =>
               LET scores == ScoresFor(req[r].question_vector)
               IN  /\ Len(req[r].ranked) = Len(FAQ_ITEMS)
                   /\ Len(scores) = Len(FAQ_ITEMS)
                   /\ \A k \in DOMAIN scores : \A l \in DOMAIN scores :
                          k # l => Before(scores, k, l) # Before(scores, l, k)
                   /\ \A k \in DOMAIN scores :
                          /\ req[r].ranked[Place(scores, k)] = <<scores[k], FAQ_ITEMS[k]>>
                          /\ (/\ Place(scores, k) = 1
                              /\ req[r].pc = "returned"
                              /\ "match_question" \in req[r].result.keys) =>
                                 /\ req[r].result.match_question = FAQ_ITEMS[k].question
                                 /\ req[r].result.match_score = Rounded(scores[k])
    /\ \A r \in DOMAIN req : \A o \in DOMAIN req :
           (/\ req[r].pc = "returned" /\ req[o].pc = "returned"
            /\ QuestionOf(req[r].body) = QuestionOf(req[o].body)
            /\ EmbedReplyOf(req[r]) = EmbedReplyOf(req[o])
            /\ CompleteReplyOf(req[r]) = CompleteReplyOf(req[o])) =>
               req[r].result = req[o].result

\* Two requests whose bodies differ in the whitespace around one query got
\* the same replies and have both returned the same match, the first of two
\* entries with different vectors that tie on a score that is not 0.0.
C17_Witness ==
    \E r \in DOMAIN req : \E o \in DOMAIN req :
        /\ r # o
        /\ req[r].pc = "returned" /\ req[o].pc = "returned"
        /\ req[r].body # req[o].body
        /\ QuestionOf(req[r].body) = QuestionOf(req[o].body)
        /\ req[r].embed_out = "ok" /\ req[o].embed_out = "ok"
        /\ req[r].question_vector = req[o].question_vector
        /\ req[r].complete_out = "ok" /\ req[o].complete_out = "ok"
        /\ Len(req[r].ranked) >= 2
        /\ req[r].ranked[1][1] = req[r].ranked[2][1]
        /\ req[r].ranked[1][1] # FZero
        /\ FAQ_VECTORS[1] # FAQ_VECTORS[2]
        /\ req[r].ranked[1][2] = FAQ_ITEMS[1]
        /\ req[r].ranked = req[o].ranked
        /\ "match_question" \in req[r].result.keys
        /\ req[r].result = req[o].result

\* The stage of Received, Validated, Embedded, Ranked, Composed, Returned a
\* request is in: 1 to 6, and 0 for a handler thread with no request.
StageOf(rq) ==
    CASE rq.pc = "idle"          -> 0
      [] rq.pc = "received"      -> 1
      [] rq.pc = "validated"     -> 2
      [] rq.pc = "embed_wait"    -> 2
      [] rq.pc = "embedded"      -> 3
      [] rq.pc = "ranked"        -> 4
      [] rq.pc = "complete_wait" -> 5
      [] rq.pc = "returned"      -> 6

\* A request whose provider call failed has done nothing of a later stage (no
\* scoring, no completion call after a failed embedding) and, once returned,
\* carries a degraded result.
FailedGoesToReturned(rq) ==
    /\ rq.embed_out \in EmbedFailures =>
           /\ ~rq.embedded
           /\ rq.ranked = <<>>
           /\ rq.complete_calls = 0
           /\ rq.pc \in {"ranked", "returned"}
           /\ rq.pc = "returned" => IsFallback(rq.result)
    /\ rq.complete_out \in CompleteFailures =>
           /\ rq.pc = "returned"
           /\ rq.result.status = 200
           /\ {"answer", "match_question", "match_score"} \subseteq rq.result.keys

\* C18 as stated: a request goes through Received, Validated, Embedded,
\* Ranked, Composed, Returned in that order, never back to an earlier stage,
\* and a provider failure at any stage takes it straight to Returned with a
\* degraded result, no later stage being done.
C18_StagesInOrder ==
    [][\A r \in DOMAIN req :
           /\ req[r].pc # "returned" => StageOf(req'[r]) >= StageOf(req[r])
           /\ req[r].pc = "returned" => req'[r].pc \in {"returned", "idle"}
           /\ FailedGoesToReturned(req'[r])]_vars

\* C19: within one request the embedding provider is called at most once and
\* the completion provider at most once, whether the calls succeed or fail,
\* and the completion provider is called only after the embedding call of
\* the same request has succeeded.
C19_NoRetries ==
    \A r \in DOMAIN req :
        /\ req[r].embed_calls <= 1
        /\ req[r].complete_calls <= 1
        /\ req[r].embed_out # "" => req[r].embed_calls = 1
        /\ req[r].complete_out # "" => req[r].complete_calls = 1
        /\ req[r].complete_calls = 1 =>
               /\ req[r].embed_calls = 1
               /\ req[r].embed_out = "ok"
               /\ req[r].embedded

\* A request has returned after its completion call failed, each provider
\* called once.
C19_Witness ==
    \E r \in DOMAIN req :
        /\ req[r].pc = "returned"
        /\ req[r].embed_out = "ok"
        /\ req[r].complete_out \in RequestExceptions
        /\ req[r].embed_calls = 1
        /\ req[r].complete_calls = 1

\* C20: once the build has returned, whatever calls succeeded or failed, the
\* index has one vector for each entry of the corpus, and the vector at
\* position i is the one get_embedding gave for the text of entry i, or the
\* empty vector when it gave none.
C20_IndexMatchesCorpus ==
    main_pc = "serve" =>
        /\ FAQ_ITEMS = items
        /\ Len(FAQ_VECTORS) = Len(FAQ_ITEMS)
        /\ Len(build_calls) = Len(FAQ_ITEMS)
        /\ Len(build_results) = Len(FAQ_ITEMS)
        /\ \A i \in 1..Len(FAQ_ITEMS) :
               /\ build_calls[i] = TextForEmbedding(FAQ_ITEMS[i])
               /\ FAQ_VECTORS[i] = IF build_results[i].none THEN <<>>
                                   ELSE build_results[i].vector

\* The build has returned an index of two entries: the first call failed,
\* the second gave a vector.
C20_Witness ==
    /\ main_pc = "serve"
    /\ Len(FAQ_ITEMS) = 2
    /\ build_results[1].none
    /\ FAQ_VECTORS[1] = <<>>
    /\ ~build_results[2].none
    /\ FAQ_VECTORS[2] # <<>>
    /\ FAQ_VECTORS[2] = build_results[2].vector

\* The calls of the build that came back with a vector of some components.
Succeeded(results) ==
    {k \in 1..Len(results) :
        results[k].raised = "" /\ ~results[k].none /\ results[k].vector # <<>>}

\* The dimensionality D: the length of the vector of the first such call.
FirstDimension(results) ==
    LET first == CHOOSE k \in Succeeded(results) : \A j \in Succeeded(results) : k <= j
    IN  Len(results[first].vector)

\* C21: in every index the build returns, whatever the provider answered,
\* each vector has as many components as the first vector the provider
\* returned, or none.
C21_OneDimensionality ==
    (main_pc = "serve" /\ Succeeded(build_results) # {}) =>
        \A k \in 1..Len(FAQ_VECTORS) :
            Len(FAQ_VECTORS[k]) \in {0, FirstDimension(build_results)}

\* C22: the build calls the embedding provider once for each corpus entry,
\* in corpus order: at every moment the calls made are those of the first
\* entries, one each, and when the build is over every entry has had its
\* call.
C22_OneCallPerEntry ==
    /\ Len(build_calls) <= Len(items)
    /\ \A k \in 1..Len(build_calls) : build_calls[k] = TextForEmbedding(items[k])
    /\ main_pc # "build" => Len(build_calls) = Len(items)

\* C23: a request that has been received is returned with a response in the
\* end, each of its provider calls being over in the end (answered, failed
\* or cut off by its timeout).
C23_RequestReturns ==
    \A r \in Reqs :
        (req[r].pc = "received") ~> (req[r].pc = "returned" /\ req[r].result # NoResult)

\* A request returned after both provider calls, the second cut off by its
\* timeout.
C23_Witness ==
    \E r \in Reqs :
        /\ req[r].pc = "returned"
        /\ req[r].embed_calls = 1 /\ req[r].complete_out = "Timeout"

\* C24: in a response to a query that is not blank, the score reported is
\* below 0.5 when the response names no matched question, and 0.5 or more
\* when it names one.
C24_ReportedScoreAgreesWithDecision ==
    \A r \in Reqs :
        (req[r].pc = "returned" /\ req[r].result.status = 200) =>
            IF "match_question" \in req[r].result.keys
            THEN ~FLess(req[r].result.match_score, Half)
            ELSE FLess(req[r].result.match_score, Half)

\* The body carries no question text: no JSON body or one that does not
\* parse, an object without the question field, or a question that is null.
NoQuestionText(body) == body.kind \in {"no_json", "no_question_key", "question_null"}

\* C25: a request whose body carries no question text is answered with
\* InvalidInput, as a blank question is, and makes no provider call.
C25_NoQuestionTextIsInvalidInput ==
    \A r \in Reqs :
        (NoQuestionText(req[r].body) /\ req[r].pc \notin {"idle", "received"}) =>
            /\ req[r].pc = "returned"
            /\ req[r].result = InvalidInput
            /\ req[r].embed_calls = 0
            /\ req[r].complete_calls = 0

\* The entries of the index stored with the empty vector.
EmptyEntries == {k \in 1..Len(FAQ_VECTORS) : FAQ_VECTORS[k] = <<>>}

\* C26: an entry stored with the empty vector scores 0.0 in every ranking,
\* is never the entry whose answer is the context of the prompt, and is
\* never the matched question of a response.
C26_EmptyEntryNeverMatched ==
    \A r \in Reqs : \A k \in EmptyEntries :
        /\ (req[r].has_ranked /\ req[r].embedded) =>
               \A i \in 1..Len(req[r].ranked) :
                   req[r].ranked[i][2] = FAQ_ITEMS[k] => req[r].ranked[i][1] = FZero
        /\ req[r].complete_calls > 0 =>
               /\ req[r].ranked[1][2] # FAQ_ITEMS[k]
               /\ req[r].prompt # PromptFor(req[r].question, FAQ_ITEMS[k].answer)
        /\ (req[r].pc = "returned" /\ "match_question" \in req[r].result.keys) =>
               req[r].result.match_question # FAQ_ITEMS[k].question

\* The first entry's build-time call failed, and a request is answered with
\* the second entry as its match.
C26_Witness ==
    \E r \in Reqs :
        /\ 1 \in EmptyEntries /\ build_results[1].none
        /\ req[r].pc = "returned"
        /\ Len(req[r].ranked) = 2
        /\ req[r].result.match_question = FAQ_ITEMS[2].question

\* The completion call of the request came back with a JSON object that has
\* no response field, and the request is over.
ReturnedWithoutResponseField(rq) ==
    rq.pc = "returned" /\ rq.complete_out = "no_response_key"

\* C27 as stated: when the completion call succeeds and its payload has no
\* response field, the answer is the stored answer of the top-ranked entry,
\* returned with that entry's question and the top score.
C27_StoredAnswerWithTopScore ==
    \A r \in Reqs :
        ReturnedWithoutResponseField(req[r]) =>
            /\ req[r].result.status = 200
            /\ req[r].result.answer = req[r].ranked[1][2].answer
            /\ req[r].result.match_question = req[r].ranked[1][2].question
            /\ req[r].result.match_score = req[r].ranked[1][1]

\* C27: when the completion call succeeds and its payload has no response
\* field, the answer is the stored answer of the top-ranked entry, returned
\* with that entry's question and the top score rounded to three decimals.
C27_StoredAnswerWithRoundedTopScore ==
    \A r \in Reqs :
        ReturnedWithoutResponseField(req[r]) =>
            /\ req[r].result.status = 200
            /\ req[r].result.keys = {"answer", "match_question", "match_score"}
            /\ req[r].result.answer = req[r].ranked[1][2].answer
            /\ req[r].result.match_question = req[r].ranked[1][2].question
            /\ req[r].result.match_score = Rounded(req[r].ranked[1][1])

\* Such a request whose top score is not a multiple of 0.001.
C27_Witness ==
    \E r \in Reqs :
        /\ ReturnedWithoutResponseField(req[r])
        /\ req[r].result.answer = req[r].ranked[1][2].answer
        /\ req[r].result.answer # <<>>
        /\ req[r].result.match_score # req[r].ranked[1][1]

\* The embedding call of the request returned a vector, and the vector is
\* empty or as long as no vector of the index.
QueryLengthFitsNone(rq) ==
    /\ rq.embedded
    /\ \/ rq.question_vector = <<>>
       \/ \A k \in 1..Len(FAQ_VECTORS) : Len(FAQ_VECTORS[k]) # Len(rq.question_vector)

\* C28: when the query's embedding is empty or as long as no indexed vector,
\* the ranking is the corpus in its own order with every score 0.0, and the
\* request ends in the fallback with score 0.0 and no completion call.
C28_LengthMismatchFallsBack ==
    \A r \in Reqs :
        QueryLengthFitsNone(req[r]) =>
            /\ req[r].has_ranked =>
                   req[r].ranked = [i \in 1..Len(FAQ_ITEMS) |-> <<FZero, FAQ_ITEMS[i]>>]
            /\ req[r].complete_calls = 0
            /\ req[r].pc \in {"embedded", "ranked", "returned"}
            /\ req[r].pc = "returned" =>
                   IsFallback(req[r].result) /\ req[r].result.match_score = FZero

\* A request over with a query vector of some components, against an index
\* of two vectors of other lengths, neither empty.
C28_Witness ==
    \E r \in Reqs :
        /\ QueryLengthFitsNone(req[r])
        /\ req[r].question_vector # <<>>
        /\ Len(FAQ_VECTORS) = 2
        /\ \A k \in 1..2 : FAQ_VECTORS[k] # <<>>
        /\ req[r].pc = "returned"

\* C29: a request is handled only after the build over the whole corpus has
\* returned: while a request is in the handler the index holds one vector
\* for every corpus entry, and a ranking made has one score for every entry.
C29_RequestsSeeWholeIndex ==
    \A r \in Reqs :
        req[r].pc # "idle" =>
            /\ main_pc = "serve"
            /\ Len(vectors) = Len(items)
            /\ FAQ_ITEMS = items
            /\ Len(FAQ_VECTORS) = Len(items)
            /\ (req[r].has_ranked /\ req[r].embedded) => Len(req[r].ranked) = Len(items)

\* A request has been ranked against an index of more than one entry.
C29_Witness ==
    \E r \in Reqs :
        /\ req[r].pc = "ranked" /\ req[r].embedded
        /\ Len(items) > 1
        /\ Len(req[r].ranked) = Len(items)
        /\ Len(build_calls) = Len(items)

====
